---- MODULE Spec2Model ----
(***************************************************************************)
(* A model of the chip8 interpreter: the register file, the memory, the    *)
(* display, the keyboard latch and Interpreter::step, one action per host  *)
(* call (step, press_key, release_key).                                    *)
(*                                                                         *)
(* A Rust panic (index out of bounds, arithmetic overflow in a build with  *)
(* overflow checks) ends the process: it is modelled by the flag           *)
(* `panicked`, with the state as it was at the moment of the panic.        *)
(* Whether integer overflow panics or wraps depends on the build profile   *)
(* (debug / release): `overflow_checks` is fixed in Init, either way.      *)
(*                                                                         *)
(* The two large arrays are kept in a canonical sparse form: `memory` is   *)
(* the function from the addresses holding a non-zero byte to that byte    *)
(* (every other address of 0..4095 holds 0), `display` is the set of the   *)
(* indices of the lit pixels (every other index of 0..2047 is unlit).      *)
(* Two arrays are equal exactly when their sparse forms are.               *)
(***************************************************************************)
EXTENDS Integers, Sequences, FiniteSets

\* ------------------------------------------------------------------ bounds

\* The host delivers press / release events for the key codes 0..MaxKey.
MaxKey == 1

\* ------------------------------------------------------- program constants

DISPLAY_WIDTH == 64
DISPLAY_HEIGHT == 32
START_ROM == 512
ROM_SIZE == 4096 - START_ROM
MEMORY_SIZE == 4096
STACK_SIZE == 16
NUM_REGISTERS == 16
NUM_KEYS == 16

FONT_DATA ==
    << \hF0, \h90, \h90, \h90, \hF0,
       \h20, \h60, \h20, \h20, \h70,
       \hF0, \h10, \hF0, \h80, \hF0,
       \hF0, \h10, \hF0, \h10, \hF0,
       \h90, \h90, \hF0, \h10, \h10,
       \hF0, \h80, \hF0, \h10, \hF0,
       \hF0, \h80, \hF0, \h90, \hF0,
       \hF0, \h10, \h20, \h40, \h40,
       \hF0, \h90, \hF0, \h90, \hF0,
       \hF0, \h90, \hF0, \h10, \hF0,
       \hF0, \h90, \hF0, \h90, \h90,
       \hE0, \h90, \hE0, \h90, \hE0,
       \hF0, \h80, \h80, \h80, \hF0,
       \hE0, \h90, \h90, \h90, \hE0,
       \hF0, \h80, \hF0, \h80, \hF0,
       \hF0, \h80, \hF0, \h80, \h80 >>

\* ------------------------------------------------------------------- state

VARIABLES
    registers,        \* Interpreter.registers : Registers
    memory,           \* Interpreter.memory    : [u8; 4096], the non-zero bytes
    display,          \* Interpreter.display   : [bool; 64 * 32], the lit indices
    keyboard,         \* Interpreter.keyboard  : Keyboard
    panicked,         \* the process has panicked (no further call is made)
    overflow_checks,  \* the build panics on integer overflow (debug profile)
    \* history variables: they record what happened, and decide nothing
    tick,             \* parity of the number of step() calls made
    pre,              \* registers, lit pixels and instruction word before the last step()
    wait,             \* the key events seen since an Fx0A instruction began to wait
    calls,            \* the calls made and not yet returned from, oldest first
    snd,              \* the last Fx18 load: the value loaded and the step() calls since
    dly,              \* the last Fx15 load: the value loaded and the step() calls since
    boot              \* the ROM given to with_rom, and whether a host call was made since

vars == << registers, memory, display, keyboard, panicked, overflow_checks,
           tick, pre, wait, calls, snd, dly, boot >>

\* --------------------------------------------------------- bit arithmetic

RECURSIVE bitand(_, _)
bitand(a, b) ==
    IF a = 0 \/ b = 0 THEN 0
    ELSE (a % 2) * (b % 2) + 2 * bitand(a \div 2, b \div 2)

RECURSIVE bitor(_, _)
bitor(a, b) ==
    IF a = 0 THEN b
    ELSE IF b = 0 THEN a
    ELSE (IF a % 2 = 1 \/ b % 2 = 1 THEN 1 ELSE 0) + 2 * bitor(a \div 2, b \div 2)

RECURSIVE bitxor(_, _)
bitxor(a, b) ==
    IF a = 0 THEN b
    ELSE IF b = 0 THEN a
    ELSE ((a + b) % 2) + 2 * bitxor(a \div 2, b \div 2)

\* ------------------------------------------------------------------ memory

\* `self.0[addr]` as a value, for addr inside the array.
mem_read(m, addr) == IF addr \in DOMAIN m THEN m[addr] ELSE 0

\* `self.0[addr] = value`, for addr inside the array.
mem_write(m, addr, value) ==
    IF value = 0
    THEN [a \in (DOMAIN m) \ {addr} |-> m[a]]
    ELSE [a \in (DOMAIN m) \cup {addr} |-> IF a = addr THEN value ELSE m[a]]

\* The array holding `bytes` from address `start` on, zero elsewhere.
mem_image(start, bytes) ==
    [a \in { start + k - 1 : k \in { j \in 1..Len(bytes) : bytes[j] # 0 } } |->
        bytes[a - start + 1]]

\* load_rom that copies the part of an oversized ROM that fits.
load_rom_truncating(bytes) ==
    LET n == IF Len(bytes) > ROM_SIZE THEN ROM_SIZE ELSE Len(bytes)
        kept == SubSeq(bytes, 1, n)
    IN [memory |-> [a \in (DOMAIN mem_image(0, FONT_DATA))
                           \cup (DOMAIN mem_image(START_ROM, kept)) |->
                      IF a < START_ROM THEN FONT_DATA[a + 1]
                      ELSE kept[a - START_ROM + 1]],
        panicked |-> FALSE]

\* load_rom that places the ROM one byte too far.
load_rom_shifted(bytes) ==
    IF START_ROM + Len(bytes) > MEMORY_SIZE
    THEN [memory |-> mem_image(0, FONT_DATA), panicked |-> TRUE]
    ELSE [memory |-> [a \in (DOMAIN mem_image(0, FONT_DATA))
                              \cup (DOMAIN mem_image(START_ROM + 1, bytes)) |->
                        IF a < START_ROM THEN FONT_DATA[a + 1]
                        ELSE bytes[a - START_ROM]],
          panicked |-> FALSE]

\* Memory::new() followed by Memory::load_rom: the font at 0, the ROM at
\* START_ROM; copy_from_slice panics when the ROM does not fit, the font
\* being already written.
load_rom(bytes) ==
    IF START_ROM + Len(bytes) > MEMORY_SIZE
    THEN [memory |-> mem_image(0, FONT_DATA), panicked |-> TRUE]
    ELSE [memory |-> [a \in (DOMAIN mem_image(0, FONT_DATA))
                              \cup (DOMAIN mem_image(START_ROM, bytes)) |->
                        IF a < START_ROM THEN FONT_DATA[a + 1]
                        ELSE bytes[a - START_ROM + 1]],
          panicked |-> FALSE]

\* --------------------------------------------------------------- registers

\* Registers::default()
registers_default ==
    [vx |-> [r \in 0..(NUM_REGISTERS - 1) |-> 0],
     i |-> 0, pc |-> 0, sp |-> 0, delay |-> 0, sound |-> 0,
     stack |-> [s \in 0..(STACK_SIZE - 1) |-> 0]]

\* Registers::push with the stack slot chosen before sp is incremented.
push_slot_before_increment(r, n) ==
    LET sp1 == (r.sp + 1) % 256 IN
    IF r.sp >= STACK_SIZE
    THEN [registers |-> r, panicked |-> TRUE]
    ELSE [registers |-> [r EXCEPT !.sp = sp1, !.stack[r.sp] = r.pc, !.pc = n],
          panicked |-> FALSE]

\* Registers::push: sp += 1; stack[sp] = pc; pc = n.
push(r, n) ==
    IF r.sp + 1 > 255 /\ overflow_checks
    THEN [registers |-> r, panicked |-> TRUE]
    ELSE LET sp1 == (r.sp + 1) % 256
             r1 == [r EXCEPT !.sp = sp1]
         IN IF sp1 >= STACK_SIZE
            THEN [registers |-> r1, panicked |-> TRUE]
            ELSE [registers |-> [r1 EXCEPT !.stack[sp1] = r.pc, !.pc = n],
                  panicked |-> FALSE]

\* Registers::pop that forgets to decrement sp.
pop_keeps_sp(r) ==
    IF r.sp >= STACK_SIZE
    THEN [registers |-> r, panicked |-> TRUE]
    ELSE [registers |-> [r EXCEPT !.pc = r.stack[r.sp]], panicked |-> FALSE]

\* Registers::pop in the other order: sp -= 1; pc = stack[sp].
pop_decrements_first(r) ==
    IF r.sp - 1 < 0 /\ overflow_checks
    THEN [registers |-> r, panicked |-> TRUE]
    ELSE LET r1 == [r EXCEPT !.sp = (r.sp - 1) % 256] IN
         IF r1.sp >= STACK_SIZE
         THEN [registers |-> r1, panicked |-> TRUE]
         ELSE [registers |-> [r1 EXCEPT !.pc = r1.stack[r1.sp]],
               panicked |-> FALSE]

\* Registers::pop: pc = stack[sp]; sp -= 1.
pop(r) ==
    IF r.sp >= STACK_SIZE
    THEN [registers |-> r, panicked |-> TRUE]
    ELSE LET r1 == [r EXCEPT !.pc = r.stack[r.sp]] IN
         IF r.sp - 1 < 0 /\ overflow_checks
         THEN [registers |-> r1, panicked |-> TRUE]
         ELSE [registers |-> [r1 EXCEPT !.sp = (r.sp - 1) % 256],
               panicked |-> FALSE]

\* ----------------------------------------------------------------- display

\* Display::new()
display_new == {}

\* Display::clear that stops after the first row of pixels.
clear_first_row(d) == { idx \in d : idx >= DISPLAY_WIDTH }

\* Display::clear
clear(d) == {}

\* `self.0[idx] = value`, for idx inside the array.
set_pixel(d, idx, value) == IF value THEN d \cup {idx} ELSE d \ {idx}

\* Display::compute_idx
compute_idx(x, y) == y * DISPLAY_WIDTH + x

\* Display::pixel (defined where the index is inside the array)
pixel(d, x, y) == compute_idx(x, y) \in d

\* Display::xor_pixel that reports every drawn bit as a cleared pixel.
xor_pixel_reports_set_bits(d, x, y, value) ==
    LET idx == compute_idx(x, y) IN
    IF idx >= DISPLAY_WIDTH * DISPLAY_HEIGHT
    THEN [display |-> d, cleared |-> FALSE, panicked |-> TRUE]
    ELSE [display |-> set_pixel(d, idx, (idx \in d) # value),
          cleared |-> value,
          panicked |-> FALSE]

\* Display::xor_pixel that sets the pixel instead of toggling it.
xor_pixel_or(d, x, y, value) ==
    LET idx == compute_idx(x, y) IN
    IF idx >= DISPLAY_WIDTH * DISPLAY_HEIGHT
    THEN [display |-> d, cleared |-> FALSE, panicked |-> TRUE]
    ELSE [display |-> set_pixel(d, idx, (idx \in d) \/ value),
          cleared |-> (idx \in d) /\ value,
          panicked |-> FALSE]

\* Display::xor_pixel: the pixel becomes last_value ^ value; the result is
\* whether a lit pixel went out. The array index panics outside 0..2047.
xor_pixel(d, x, y, value) ==
    LET idx == compute_idx(x, y) IN
    IF idx >= DISPLAY_WIDTH * DISPLAY_HEIGHT
    THEN [display |-> d, cleared |-> FALSE, panicked |-> TRUE]
    ELSE LET last_value == idx \in d
             new_value == (last_value # value)
         IN [display |-> set_pixel(d, idx, new_value),
             cleared |-> last_value /\ ~new_value,
             panicked |-> FALSE]

\* ---------------------------------------------------------------- keyboard

\* WaitingState
WaitingNone == [tag |-> "None"]
WaitingWaiting == [tag |-> "Waiting"]
WaitingPressed(key) == [tag |-> "Pressed", key |-> key]

\* Keyboard::new()
keyboard_new ==
    [pressed_keys |-> [k \in 0..(NUM_KEYS - 1) |-> FALSE],
     waiting_state |-> WaitingNone]

\* Keyboard::is_pressed (defined for key < 16; the index panics otherwise)
is_pressed(kb, key) == kb.pressed_keys[key]

\* Keyboard::press_key
press_key(kb, key) == [kb EXCEPT !.pressed_keys[key] = TRUE]

\* Keyboard::release_key that latches the key whatever the waiting state.
release_key_always_latches(kb, key) ==
    [kb EXCEPT !.pressed_keys[key] = FALSE,
               !.waiting_state = WaitingPressed(key)]

\* Keyboard::release_key that latches only a key that was down.
release_key_needs_press(kb, key) ==
    LET kb1 == [kb EXCEPT !.pressed_keys[key] = FALSE] IN
    IF kb.waiting_state = WaitingWaiting /\ kb.pressed_keys[key]
    THEN [kb1 EXCEPT !.waiting_state = WaitingPressed(key)]
    ELSE kb1

\* Keyboard::release_key that records the key as up and never latches it.
release_key_never_latches(kb, key) ==
    [kb EXCEPT !.pressed_keys[key] = FALSE]

\* Keyboard::release_key that latches while Waiting and replaces a key
\* that is already latched.
release_key_last_wins(kb, key) ==
    LET kb1 == [kb EXCEPT !.pressed_keys[key] = FALSE] IN
    IF kb.waiting_state # WaitingNone
    THEN [kb1 EXCEPT !.waiting_state = WaitingPressed(key)]
    ELSE kb1

\* Keyboard::release_key
release_key(kb, key) ==
    LET kb1 == [kb EXCEPT !.pressed_keys[key] = FALSE] IN
    IF kb.waiting_state = WaitingWaiting
    THEN [kb1 EXCEPT !.waiting_state = WaitingPressed(key)]
    ELSE kb1

\* Keyboard::wait_for_keypress that resolves on a key that is down.
wait_for_keypress_on_press(kb) ==
    IF \E k \in 0..(NUM_KEYS - 1) : kb.pressed_keys[k]
    THEN [keyboard |-> [kb EXCEPT !.waiting_state = WaitingNone],
          some |-> TRUE,
          key |-> CHOOSE k \in 0..(NUM_KEYS - 1) : kb.pressed_keys[k]]
    ELSE [keyboard |-> [kb EXCEPT !.waiting_state = WaitingWaiting],
          some |-> FALSE, key |-> 0]

\* Keyboard::wait_for_keypress that reports the latched key and keeps it
\* latched.
wait_for_keypress_keeps_latch(kb) ==
    IF kb.waiting_state = WaitingNone
    THEN [keyboard |-> [kb EXCEPT !.waiting_state = WaitingWaiting],
          some |-> FALSE, key |-> 0]
    ELSE IF kb.waiting_state.tag = "Pressed"
    THEN [keyboard |-> kb, some |-> TRUE, key |-> kb.waiting_state.key]
    ELSE [keyboard |-> kb, some |-> FALSE, key |-> 0]

\* Keyboard::wait_for_keypress: the result is Some(key) or None
\* (some = FALSE; key is then meaningless).
wait_for_keypress(kb) ==
    IF kb.waiting_state = WaitingNone
    THEN [keyboard |-> [kb EXCEPT !.waiting_state = WaitingWaiting],
          some |-> FALSE, key |-> 0]
    ELSE IF kb.waiting_state.tag = "Pressed"
    THEN [keyboard |-> [kb EXCEPT !.waiting_state = WaitingNone],
          some |-> TRUE, key |-> kb.waiting_state.key]
    ELSE [keyboard |-> kb, some |-> FALSE, key |-> 0]

\* ------------------------------------------------------------- interpreter

\* Interpreter::with_rom
with_rom(bytes) ==
    LET m == load_rom(bytes) IN
    [registers |-> [registers_default EXCEPT !.pc = START_ROM],
     memory |-> m.memory,
     display |-> display_new,
     keyboard |-> keyboard_new,
     panicked |-> m.panicked]

\* A panic: the call in progress ends here, with the state as it is.
Panic(self) == [self EXCEPT !.panicked = TRUE]

\* `self.registers.pc += 2` (u16)
pc_add2(self) ==
    LET v == self.registers.pc + 2 IN
    IF v > 65535 /\ overflow_checks
    THEN Panic(self)
    ELSE [self EXCEPT !.registers.pc = v % 65536]

\* `self.memory.0[addr] = value`: the index panics outside the array.
memory_write(self, addr, value) ==
    IF self.panicked THEN self
    ELSE IF addr >= MEMORY_SIZE THEN Panic(self)
    ELSE [self EXCEPT !.memory = mem_write(self.memory, addr, value)]

\* `self.registers.vx[0xF] = 1` or `= 0`, the tail of the flag instructions.
set_flag(self, flag) ==
    [self EXCEPT !.registers.vx[15] = IF flag THEN 1 ELSE 0]

\* 00E0
handle_clear(self) == [self EXCEPT !.display = clear(self.display)]

\* 00EE
handle_ret(self) ==
    LET r == pop(self.registers) IN
    [self EXCEPT !.registers = r.registers, !.panicked = r.panicked]

\* 1nnn with the jump target advanced like any other instruction.
handle_jump_then_advance(self, n) == [self EXCEPT !.registers.pc = n + 2]

\* 1nnn
handle_jump(self, n) == [self EXCEPT !.registers.pc = n]

\* 2nnn
handle_call(self, n) ==
    LET r == push(self.registers, n) IN
    [self EXCEPT !.registers = r.registers, !.panicked = r.panicked]

\* 3xkk
handle_skip_if_equal_immediate(self, x, k) ==
    IF self.registers.vx[x] = k THEN pc_add2(self) ELSE self

\* 4xkk
handle_skip_if_not_equal_immediate(self, x, k) ==
    IF self.registers.vx[x] # k THEN pc_add2(self) ELSE self

\* 5xy0
handle_skip_if_equal_register(self, x, y) ==
    IF self.registers.vx[x] = self.registers.vx[y] THEN pc_add2(self) ELSE self

\* 6xkk
handle_load_register_immediate(self, x, k) ==
    [self EXCEPT !.registers.vx[x] = k]

\* 7xkk
handle_add_register_immediate(self, x, k) ==
    [self EXCEPT !.registers.vx[x] = (self.registers.vx[x] + k) % 256]

\* 8xy0
handle_load_register_register(self, x, y) ==
    [self EXCEPT !.registers.vx[x] = self.registers.vx[y]]

\* 8xy1
handle_or_register_register(self, x, y) ==
    [self EXCEPT !.registers.vx[x] = bitor(self.registers.vx[x], self.registers.vx[y])]

\* 8xy2
handle_and_register_register(self, x, y) ==
    [self EXCEPT !.registers.vx[x] = bitand(self.registers.vx[x], self.registers.vx[y])]

\* 8xy3
handle_xor_register_register(self, x, y) ==
    [self EXCEPT !.registers.vx[x] = bitxor(self.registers.vx[x], self.registers.vx[y])]

\* 8xy4 with the carry taken from the 8-bit result, which never exceeds 255.
handle_add_register_register_truncated_carry(self, x, y) ==
    LET a == self.registers.vx[x]
        b == self.registers.vx[y]
        result == (a + b) % 256
    IN set_flag([self EXCEPT !.registers.vx[x] = result], result > 255)

\* 8xy4 with the flag stored first and the result last.
handle_add_register_register_result_last(self, x, y) ==
    LET a == self.registers.vx[x]
        b == self.registers.vx[y]
        result == (a + b) % 256
        overflow == a + b > 255
    IN [set_flag(self, overflow) EXCEPT !.registers.vx[x] = result]

\* 8xy4: the result is stored first, the flag last.
handle_add_register_register(self, x, y) ==
    LET a == self.registers.vx[x]
        b == self.registers.vx[y]
        result == (a + b) % 256
        overflow == a + b > 255
    IN set_flag([self EXCEPT !.registers.vx[x] = result], overflow)

\* 8xy5 with the flag set also when the operands are equal.
handle_sub_register_register_flag_on_equal(self, x, y) ==
    LET a == self.registers.vx[x]
        b == self.registers.vx[y]
        result == (a - b) % 256
    IN set_flag([self EXCEPT !.registers.vx[x] = result], a >= b)

\* 8xy5
handle_sub_register_register(self, x, y) ==
    LET a == self.registers.vx[x]
        b == self.registers.vx[y]
        result == (a - b) % 256
    IN set_flag([self EXCEPT !.registers.vx[x] = result], a > b)

\* 8xy6 shifting Vy into Vx.
handle_shift_right_register_one_from_vy(self, x, y) ==
    LET a == self.registers.vx[y]
        underflow == bitand(a, 1) = 1
        result == a \div 2
    IN set_flag([self EXCEPT !.registers.vx[x] = result], underflow)

\* 8xy6
handle_shift_right_register_one(self, x, y) ==
    LET a == self.registers.vx[x]
        underflow == bitand(a, 1) = 1
        result == a \div 2
    IN set_flag([self EXCEPT !.registers.vx[x] = result], underflow)

\* 8xy7
handle_sub_register_register_negated(self, x, y) ==
    LET a == self.registers.vx[x]
        b == self.registers.vx[y]
        result == (b - a) % 256
    IN set_flag([self EXCEPT !.registers.vx[x] = result], b > a)

\* 8xyE
handle_shift_left_register_one(self, x, y) ==
    LET a == self.registers.vx[x]
        overflow == bitand(a, 128) > 1
        result == (a * 2) % 256
    IN set_flag([self EXCEPT !.registers.vx[x] = result], overflow)

\* 9xy0
handle_skip_if_not_equal_register(self, x, y) ==
    IF self.registers.vx[x] # self.registers.vx[y] THEN pc_add2(self) ELSE self

\* Annn
handle_load_immediate_into_i(self, n) == [self EXCEPT !.registers.i = n]

\* Bnnn
handle_jump_relative(self, n) ==
    [self EXCEPT !.registers.pc = (n + self.registers.vx[0]) % 65536]

\* Cxkk: v is the byte the generator yields.
handle_random(self, x, k, v) ==
    [self EXCEPT !.registers.vx[x] = bitand(v, k)]

\* The inner loop of handle_draw_sprite: the 8 bits of one sprite byte, most
\* significant first, each XORed at (col, row), col counting up unwrapped.
RECURSIVE draw_sprite_row(_, _, _, _, _, _)
draw_sprite_row(acc, sprite, mask, col, row, count) ==
    IF count = 8 \/ acc.self.panicked THEN acc
    ELSE LET value == bitand(sprite, mask) > 0
             r == xor_pixel(acc.self.display, col, row, value)
         IN draw_sprite_row(
                [self |-> [acc.self EXCEPT !.display = r.display,
                                           !.panicked = r.panicked],
                 was_cleared |-> acc.was_cleared \/ r.cleared],
                sprite, mask \div 2, col + 1, row, count + 1)

\* The outer loop of handle_draw_sprite: one sprite byte per row, read at
\* I + offset (the index panics outside memory), row counting up unwrapped.
RECURSIVE draw_sprite_rows(_, _, _, _, _)
draw_sprite_rows(acc, x, n, offset, row) ==
    IF offset = n \/ acc.self.panicked THEN acc
    ELSE LET idx == acc.self.registers.i + offset IN
         IF idx >= MEMORY_SIZE
         THEN [acc EXCEPT !.self = Panic(acc.self)]
         ELSE draw_sprite_rows(
                  draw_sprite_row(acc, mem_read(acc.self.memory, idx), 128,
                                  acc.self.registers.vx[x], row, 0),
                  x, n, offset + 1, row + 1)

\* Dxyn
handle_draw_sprite(self, x, y, n) ==
    LET acc == draw_sprite_rows([self |-> self, was_cleared |-> FALSE],
                                x, n, 0, self.registers.vx[y])
    IN IF acc.self.panicked THEN acc.self
       ELSE set_flag(acc.self, acc.was_cleared)

\* Ex9E: is_pressed indexes pressed_keys with Vx and panics when Vx >= 16.
handle_skip_if_key_pressed(self, x) ==
    LET keycode == self.registers.vx[x] IN
    IF keycode >= NUM_KEYS THEN Panic(self)
    ELSE IF is_pressed(self.keyboard, keycode) THEN pc_add2(self) ELSE self

\* ExA1
handle_skip_if_key_not_pressed(self, x) ==
    LET keycode == self.registers.vx[x] IN
    IF keycode >= NUM_KEYS THEN Panic(self)
    ELSE IF ~is_pressed(self.keyboard, keycode) THEN pc_add2(self) ELSE self

\* Fx07 that reads the sound timer.
handle_store_delay_timer_register_reads_sound(self, x) ==
    [self EXCEPT !.registers.vx[x] = self.registers.sound]

\* Fx07
handle_store_delay_timer_register(self, x) ==
    [self EXCEPT !.registers.vx[x] = self.registers.delay]

\* Fx0A that stores the key but leaves pc on the instruction.
handle_wait_for_keypress_keeps_pc(self, x) ==
    LET w == wait_for_keypress(self.keyboard)
        s1 == [self EXCEPT !.keyboard = w.keyboard]
    IN IF w.some
       THEN [s1 EXCEPT !.registers.vx[x] = w.key]
       ELSE s1

\* Fx0A
handle_wait_for_keypress(self, x) ==
    LET w == wait_for_keypress(self.keyboard)
        s1 == [self EXCEPT !.keyboard = w.keyboard]
    IN IF w.some
       THEN pc_add2([s1 EXCEPT !.registers.vx[x] = w.key])
       ELSE s1

\* Fx15
handle_load_delay_timer_register(self, x) ==
    [self EXCEPT !.registers.delay = self.registers.vx[x]]

\* Fx18
handle_load_sound_timer_register(self, x) ==
    [self EXCEPT !.registers.sound = self.registers.vx[x]]

\* Fx29: the register INDEX x is multiplied, not the register's value.
handle_load_digit_sprite_location(self, x) ==
    [self EXCEPT !.registers.i = (x * 5) % 65536]

\* Fx1E that also reports in VF whether I left the 12-bit address range.
handle_add_i_register_sets_flag(self, x) ==
    LET sum == self.registers.i + self.registers.vx[x] IN
    set_flag([self EXCEPT !.registers.i = sum % 65536], sum > \hFFF)

\* Fx1E
handle_add_i_register(self, x) ==
    [self EXCEPT !.registers.i = (self.registers.i + self.registers.vx[x]) % 65536]

\* Fx33 with the tens digit taken as Vx / 10, the hundreds not removed.
handle_load_bcd_tens_unreduced(self, x) ==
    LET i == self.registers.i
        v == self.registers.vx[x]
    IN memory_write(
           memory_write(
               memory_write(self, i + 0, v \div 100),
               i + 1, v \div 10),
           i + 2, v % 10)

\* Fx33: three writes in order, each one indexing memory.
handle_load_bcd(self, x) ==
    LET i == self.registers.i
        v == self.registers.vx[x]
    IN memory_write(
           memory_write(
               memory_write(self, i + 0, v \div 100),
               i + 1, (v % 100) \div 10),
           i + 2, v % 10)

\* Fx55: for offset in 0..=x { memory[i + offset] = vx[offset] }
RECURSIVE store_registers_loop(_, _, _, _)
store_registers_loop(self, i, x, offset) ==
    IF offset > x \/ self.panicked THEN self
    ELSE store_registers_loop(
             memory_write(self, i + offset, self.registers.vx[offset]),
             i, x, offset + 1)

\* Fx55 that stops before Vx: for offset in 0..x.
handle_store_registers_in_memory_exclusive(self, x) ==
    store_registers_loop(self, self.registers.i, x - 1, 0)

handle_store_registers_in_memory(self, x) ==
    store_registers_loop(self, self.registers.i, x, 0)

\* Fx65: for offset in 0..=x { vx[offset] = memory[i + offset] }
RECURSIVE load_registers_loop(_, _, _, _)
load_registers_loop(self, i, x, offset) ==
    IF offset > x \/ self.panicked THEN self
    ELSE IF i + offset >= MEMORY_SIZE THEN Panic(self)
    ELSE load_registers_loop(
             [self EXCEPT !.registers.vx[offset] = mem_read(self.memory, i + offset)],
             i, x, offset + 1)

\* Fx65 with the copy the wrong way round: registers into memory.
handle_load_registers_from_memory_reversed(self, x) ==
    store_registers_loop(self, self.registers.i, x, 0)

handle_load_registers_from_memory(self, x) ==
    load_registers_loop(self, self.registers.i, x, 0)

\* sound_timer_active that looks at the delay timer.
sound_timer_active_reads_delay(self) == self.registers.delay > 0

\* Interpreter::sound_timer_active
sound_timer_active(self) == self.registers.sound > 0

\* The fields step() decodes from the instruction word.
first_nibble(cur) == (cur \div 4096) % 16
second_nibble(cur) == (cur \div 256) % 16
third_nibble(cur) == (cur \div 16) % 16
fourth_nibble(cur) == cur % 16
second_byte(cur) == cur % 256
\* `cur & 0x00FF` in the place of `cur & 0x0FFF`.
bottom_tribble_low_byte(cur) == cur % 256
bottom_tribble(cur) == cur % 4096

\* step() without its trailing `pc += 2`.
advance_skipped(self) == self

\* The trailing `self.registers.pc += 2` of step(), reached by every
\* handler that does not return early.
advance(self) == IF self.panicked THEN self ELSE pc_add2(self)

\* The dispatch of step(): jump, call, jump-relative and the keypress wait
\* return before the trailing pc += 2; an unmatched word is reported on
\* stderr and falls through to it.
execute(self, cur, v) ==
    LET a == first_nibble(cur)
        x == second_nibble(cur)
        y == third_nibble(cur)
        d == fourth_nibble(cur)
        kk == second_byte(cur)
        nnn == bottom_tribble(cur)
    IN IF cur = \h00E0 THEN advance(handle_clear(self))
       ELSE IF cur = \h00EE THEN advance(handle_ret(self))
       ELSE CASE a = 0 \/ a = 1 -> handle_jump(self, nnn)
              [] a = 2 -> handle_call(self, nnn)
              [] a = 3 -> advance(handle_skip_if_equal_immediate(self, x, kk))
              [] a = 4 -> advance(handle_skip_if_not_equal_immediate(self, x, kk))
              [] a = 5 /\ d = 0 -> advance(handle_skip_if_equal_register(self, x, y))
              [] a = 6 -> advance(handle_load_register_immediate(self, x, kk))
              [] a = 7 -> advance(handle_add_register_immediate(self, x, kk))
              [] a = 8 /\ d = 0 -> advance(handle_load_register_register(self, x, y))
              [] a = 8 /\ d = 1 -> advance(handle_or_register_register(self, x, y))
              [] a = 8 /\ d = 2 -> advance(handle_and_register_register(self, x, y))
              [] a = 8 /\ d = 3 -> advance(handle_xor_register_register(self, x, y))
              [] a = 8 /\ d = 4 -> advance(handle_add_register_register(self, x, y))
              [] a = 8 /\ d = 5 -> advance(handle_sub_register_register(self, x, y))
              [] a = 8 /\ d = 6 -> advance(handle_shift_right_register_one(self, x, y))
              [] a = 8 /\ d = 7 -> advance(handle_sub_register_register_negated(self, x, y))
              [] a = 8 /\ d = 14 -> advance(handle_shift_left_register_one(self, x, y))
              [] a = 9 /\ d = 0 -> advance(handle_skip_if_not_equal_register(self, x, y))
              [] a = 10 -> advance(handle_load_immediate_into_i(self, nnn))
              [] a = 11 -> handle_jump_relative(self, nnn)
              [] a = 12 -> advance(handle_random(self, x, kk, v))
              [] a = 13 -> advance(handle_draw_sprite(self, x, y, d))
              [] a = 14 /\ kk = \h9E -> advance(handle_skip_if_key_pressed(self, x))
              [] a = 14 /\ kk = \hA1 -> advance(handle_skip_if_key_not_pressed(self, x))
              [] a = 15 /\ kk = \h07 -> advance(handle_store_delay_timer_register(self, x))
              [] a = 15 /\ kk = \h0A -> handle_wait_for_keypress(self, x)
              [] a = 15 /\ kk = \h15 -> advance(handle_load_delay_timer_register(self, x))
              [] a = 15 /\ kk = \h18 -> advance(handle_load_sound_timer_register(self, x))
              [] a = 15 /\ kk = \h29 -> advance(handle_load_digit_sprite_location(self, x))
              [] a = 15 /\ kk = \h1E -> advance(handle_add_i_register(self, x))
              [] a = 15 /\ kk = \h33 -> advance(handle_load_bcd(self, x))
              [] a = 15 /\ kk = \h55 -> advance(handle_store_registers_in_memory(self, x))
              [] a = 15 /\ kk = \h65 -> advance(handle_load_registers_from_memory(self, x))
              [] OTHER -> advance(self)

\* The decrement as a wrapping subtraction: 0 - 1 = 255.
wrapping_sub(a, b) == (a - b) % 256

\* The instruction words an arm of the dispatch of step() matches; every
\* other word reaches the final `_` arm.
Decodes(cur) ==
    LET a == first_nibble(cur)
        d == fourth_nibble(cur)
        kk == second_byte(cur)
    IN \/ a \in {0, 1, 2, 3, 4, 6, 7, 10, 11, 12, 13}
       \/ a \in {5, 9} /\ d = 0
       \/ a = 8 /\ d \in {0, 1, 2, 3, 4, 5, 6, 7, 14}
       \/ a = 14 /\ kk \in {\h9E, \hA1}
       \/ a = 15 /\ kk \in {\h07, \h0A, \h15, \h18, \h29, \h1E, \h33, \h55, \h65}

\* `self.registers.delay.saturating_sub(1)`, and the same for sound.
saturating_sub(a, b) == IF a - b < 0 THEN 0 ELSE a - b

\* The instruction fetch of step(): the slice memory[pc..pc + 2] panics
\* when it does not lie inside memory (fetchable = FALSE).
fetchable(self) == self.registers.pc + 2 <= MEMORY_SIZE
fetch(self) ==
    mem_read(self.memory, self.registers.pc) * 256
        + mem_read(self.memory, self.registers.pc + 1)

\* Interpreter::step
step(self, v) ==
    LET s0 == [self EXCEPT
                  !.registers.delay = saturating_sub(self.registers.delay, 1),
                  !.registers.sound = saturating_sub(self.registers.sound, 1)]
    IN IF ~fetchable(s0) THEN Panic(s0)
       ELSE execute(s0, fetch(s0), v)

\* -------------------------------------------------------------------- ROMs

\* One instruction word as its two bytes, big-endian.
Word(w) == << w \div 256, w % 256 >>

\* Recursion to depth d: V0 = d; call F; halt.  F: V0 -= 1; if V0 # 0 call F; ret.
\*   200: 60dd  202: 2206  204: 1204  206: 70FF  208: 3000  20A: 2206  20C: 00EE
CallRom(d) ==
    Word(\h6000 + d) \o Word(\h2206) \o Word(\h1204) \o Word(\h70FF)
        \o Word(\h3000) \o Word(\h2206) \o Word(\h00EE)

\* Two subroutines, one calling the other, called from distinct addresses.
\*   200: 2206  202: 220A  204: 1204  206: 220A  208: 00EE  20A: 00EE
NestRom ==
    Word(\h2206) \o Word(\h220A) \o Word(\h1204)
        \o Word(\h220A) \o Word(\h00EE) \o Word(\h00EE)

\* A subroutine that calls itself without end.
SelfCallRom == Word(\h2200)

\* A return with no call outstanding, at once and after a balanced call.
RetRom == Word(\h00EE)
\*   200: 2204  202: 00EE  204: 00EE
CallRetRetRom == Word(\h2204) \o Word(\h00EE) \o Word(\h00EE)

\* Sprite draws: VA = x; VB = y; I = addr; draw the n-row sprite three
\* times, move VA by dx, draw twice more; halt.
\*   200: 6Axx 202: 6Byy 204: Annn 206: DABn 208: DABn 20A: DABn
\*   20C: 7Adx 20E: DABn 210: DABn 212: 1212
DrawRom(x, y, n, addr, dx) ==
    Word(\h6A00 + x) \o Word(\h6B00 + y) \o Word(\hA000 + addr)
        \o Word(\hDAB0 + n) \o Word(\hDAB0 + n) \o Word(\hDAB0 + n)
        \o Word(\h7A00 + dx) \o Word(\hDAB0 + n) \o Word(\hDAB0 + n)
        \o Word(\h1212)

\* The same sprite drawn twice with VF as the x register: the first draw
\* overwrites the coordinate the second one reads.
\*   200: 6Fxx 202: 6Byy 204: Annn 206: DFBn 208: DFBn 20A: 120A
DrawFlagRom(x, y, n, addr) ==
    Word(\h6F00 + x) \o Word(\h6B00 + y) \o Word(\hA000 + addr)
        \o Word(\hDFB0 + n) \o Word(\hDFB0 + n) \o Word(\h120A)

\* Two keypress waits in a loop.
\*   200: F10A  202: F20A  204: 1200
KeyRom == Word(\hF10A) \o Word(\hF20A) \o Word(\h1200)

DrawXs == {0, 62, 70}
DrawYs == {0, 31}
DrawNs == {0, 1, 5, 15}
\* sprite sources: the glyph "0", the ROM's own bytes, zeros
DrawAddrs == {0, 512, 768}

Roms ==
    { CallRom(d) : d \in {1, 2, 3, 15, 16} }
        \cup { NestRom, SelfCallRom, RetRom, CallRetRetRom, KeyRom }
        \cup { DrawRom(x, y, n, addr, 2) :
                   x \in DrawXs, y \in DrawYs, n \in DrawNs, addr \in DrawAddrs }
        \cup { DrawFlagRom(3, 1, 5, 0) }

\* Arithmetic: Vy = b; Vx = any byte (Cx FF); 8xy<op>; halt.
\*   200: 6ybb  202: CxFF  204: 8xy<op>  206: 1206
AluRom(op, x, y, b) ==
    Word(\h6000 + y * 256 + b) \o Word(\hC0FF + x * 256)
        \o Word(\h8000 + x * 256 + y * 16 + op) \o Word(\h1206)

AluBytes == {0, \h13, \hFF}

\* add and the two subtractions: distinct registers, the same register twice,
\* VF as the source, VF as the destination, VF as both
AluRoms ==
    { AluRom(op, 1, 2, b) : op \in {4, 5, 7}, b \in AluBytes }
        \cup { AluRom(op, 15, 2, b) : op \in {4, 5, 7}, b \in AluBytes }
        \cup { AluRom(op, 1, 2, \h13) : op \in {6, 14} }
        \cup { AluRom(op, 15, 2, \h13) : op \in {6, 14} }
        \cup { AluRom(op, 1, 15, \h13) : op \in {4, 5, 6, 7, 14} }
        \cup { AluRom(op, 1, 1, 0) : op \in {4, 5, 6, 7, 14} }
        \cup { AluRom(op, 15, 15, 0) : op \in {4, 5, 6, 7, 14} }

\* Fx33: Vx = any byte; I = addr; store the digits; halt.
\*   200: CxFF  202: Annn  204: Fx33  206: 1206
BcdRom(x, addr) ==
    Word(\hC0FF + x * 256) \o Word(\hA000 + addr)
        \o Word(\hF033 + x * 256) \o Word(\h1206)

\* Fx29: Vx = any digit 0..15; I = glyph address; halt.
\*   200: Cx0F  202: Fx29  204: 1204
FontRom(x) ==
    Word(\hC00F + x * 256) \o Word(\hF029 + x * 256) \o Word(\h1204)

\* 1nnn, with registers, a stack slot and pixels set before it.
\*   200: 6003  202: A005  204: D005  206: 220A  208: 1208  20A: 1nnn
JumpRom(nnn) ==
    Word(\h6003) \o Word(\hA005) \o Word(\hD005) \o Word(\h220A)
        \o Word(\h1208) \o Word(\h1000 + nnn)

\* A skip: V0 = any of 0..31 (key codes and values past them); V1 = 5;
\* the skip instruction w; the two places it can continue at.
\*   200: C01F  202: 6105  204: w  206: 1206  208: 1208
SkipRom(w) ==
    Word(\hC01F) \o Word(\h6105) \o Word(w) \o Word(\h1206) \o Word(\h1208)

SkipWords == {\h3005, \h4005, \h5010, \h5000, \h9010, \h9000, \hE09E, \hE0A1}

\* Timers: delay = n; sound = m; then a loop of a keypress wait, an
\* unrecognised word, a read of the delay timer and a second sound load.
\*   200: 60nn  202: 61mm  204: F015  206: F118  208: F20A  20A: 5011
\*   20C: F307  20E: 8430  210: F418  212: 1208
TimerRom(n, m) ==
    Word(\h6000 + n) \o Word(\h6100 + m) \o Word(\hF015) \o Word(\hF118)
        \o Word(\hF20A) \o Word(\h5011) \o Word(\hF307) \o Word(\h8430)
        \o Word(\hF418) \o Word(\h1208)

\* Timers running down with no further load.
\*   200: 60nn  202: 61mm  204: F015  206: F118  208: 5011  20A: 1208
CountdownRom(n, m) ==
    Word(\h6000 + n) \o Word(\h6100 + m) \o Word(\hF015) \o Word(\hF118)
        \o Word(\h5011) \o Word(\h1208)

\* The delay timer read back right after its load and later.
\*   200: 60nn  202: 6703  204: F718  206: F015  208: F107  20A: F207
\*   20C: 5011  20E: F307  210: 120E
DelayRom(n) ==
    Word(\h6000 + n) \o Word(\h6703) \o Word(\hF718) \o Word(\hF015)
        \o Word(\hF107) \o Word(\hF207) \o Word(\h5011) \o Word(\hF307)
        \o Word(\h120E)

OpRoms ==
    { DelayRom(n) : n \in {0, 1, 2, 5} } \cup
    { BcdRom(x, addr) : x \in {0, 5}, addr \in {\h300, \hFFD, \hFFE} }
        \cup { FontRom(x) : x \in {0, 7} }
        \cup { JumpRom(nnn) : nnn \in {\h789, \hFFF, \h202} }
        \cup { SkipRom(w) : w \in SkipWords }
        \cup { TimerRom(n, m) : n \in {0, 3}, m \in {0, 1, 4} }
        \cup { CountdownRom(0, 255), CountdownRom(255, 2) }

\* ROMs of every length around the capacity: n bytes, the first two a jump
\* to itself, the last one non-zero.
\*   200: 1200  ...  200 + n - 1: AB
SizedRom(n) ==
    [k \in 1..n |-> IF k = 1 /\ n >= 2 THEN \h12
                    ELSE IF k = n THEN \hAB ELSE 0]

RomLengths == {0, 1, 2, 7, ROM_SIZE - 1, ROM_SIZE, ROM_SIZE + 1, ROM_SIZE + 2, 4000}

\* An unrecognised word between two recognised ones.
\*   200: 6003  202: A005  204: D005  206: w  208: 1208
UnknownRom(w) ==
    Word(\h6003) \o Word(\hA005) \o Word(\hD005) \o Word(w) \o Word(\h1208)

UnknownWords == {\h5011, \h8018, \h9011, \hE000, \hF000}

\* 00E0 on a display with pixels lit, then on a blank one; the timers run.
\*   200: 6003  202: F015  204: F018  206: A005  208: D015  20A: 00E0
\*   20C: 00E0  20E: D015  210: 1210
ClearRom ==
    Word(\h6003) \o Word(\hF015) \o Word(\hF018) \o Word(\hA005)
        \o Word(\hD015) \o Word(\h00E0) \o Word(\h00E0) \o Word(\hD015)
        \o Word(\h1210)

\* V0..VF = 0x11, 0x22, ..., 0xFF, 0x10: sixteen 6xkk words.
RECURSIVE FillRegisters(_)
FillRegisters(r) ==
    IF r = NUM_REGISTERS THEN << >>
    ELSE Word(\h6000 + r * 256 + (IF r = 15 THEN \h10 ELSE (r + 1) * 17))
             \o FillRegisters(r + 1)

\* Fx55 to addr, then Fx65 from the font table; halt.
\*   200..21E: fill  220: Annn  222: Fx55  224: A003  226: Fx65  228: 1228
RegsRom(x, addr) ==
    FillRegisters(0) \o Word(\hA000 + addr) \o Word(\hF055 + x * 256)
        \o Word(\hA003) \o Word(\hF065 + x * 256) \o Word(\h1228)

\* Accesses past the end of memory, each with something to lose.
\*   200: 6011  202: 6122  204: 6233  206: AFFE  208: w
OobRom(w) ==
    Word(\h6011) \o Word(\h6122) \o Word(\h6233) \o Word(\hAFFE) \o Word(w)

\* A sprite whose first row is the last byte of memory.
\*   200: 60FF  202: AFFF  204: F055  206: 6100  208: D115
OobDrawRom ==
    Word(\h60FF) \o Word(\hAFFF) \o Word(\hF055) \o Word(\h6100) \o Word(\hD115)

\* Fx1E up to and across the 16-bit boundary: I = 0xFEB + 241 * 0xFF =
\* 0xFFFA, then + 0xFA.
\*   200: 60FF  202: 61F1  204: AFEB  206: F01E  208: 71FF  20A: 3100
\*   20C: 1206  20E: 6FFA  210: FF1E  212: 1212
AddIRom ==
    Word(\h60FF) \o Word(\h61F1) \o Word(\hAFEB) \o Word(\hF01E)
        \o Word(\h71FF) \o Word(\h3100) \o Word(\h1206) \o Word(\h6FFA)
        \o Word(\hFF1E) \o Word(\h1212)

\* One of everything else: the register moves and logic, a random byte, the
\* timers, a glyph address, a keypress wait, a relative jump.
\*   200: 6035  202: 610F  204: 8010  206: 8011  208: 8012  20A: 8013
\*   20C: C203  20E: F215  210: F307  212: F318  214: F229  216: F40A
\*   218: 7401  21A: 6000  21C: B21E  21E: 121E
MiscRom ==
    Word(\h6035) \o Word(\h610F) \o Word(\h8010) \o Word(\h8011)
        \o Word(\h8012) \o Word(\h8013) \o Word(\hC203) \o Word(\hF215)
        \o Word(\hF307) \o Word(\hF318) \o Word(\hF229) \o Word(\hF40A)
        \o Word(\h7401) \o Word(\h6000) \o Word(\hB21E) \o Word(\h121E)

\* A word of the form 0nnn, reached inside a subroutine with pixels lit.
\*   200: 6003  202: A005  204: D005  206: 220A  208: 1208  20A: 0nnn
SysRom(nnn) ==
    Word(\h6003) \o Word(\hA005) \o Word(\hD005) \o Word(\h220A)
        \o Word(\h1208) \o Word(nnn)

SysAddresses == {\h789, \h0E1, \h0EF, \h20A, \hFFF}

MixRoms ==
    { SizedRom(n) : n \in RomLengths }
        \cup { SysRom(nnn) : nnn \in SysAddresses }
        \cup { UnknownRom(w) : w \in UnknownWords }
        \cup { RegsRom(x, \h300) : x \in 0..15 }
        \cup { RegsRom(x, \hFF0) : x \in {0, 3, 15} }
        \cup { OobRom(w) : w \in {\hF233, \hF255, \hF265, \hF155, \h1FFF} }
        \cup { ClearRom, OobDrawRom, AddIRom, MiscRom, CallRom(2), RetRom,
               DrawRom(0, 31, 5, 0, 2), SkipRom(\hE0A1),
               AluRom(4, 1, 2, \h13), AluRom(5, 1, 2, \h13), AluRom(6, 1, 2, \h13),
               AluRom(7, 1, 2, \h13), AluRom(14, 1, 2, \h13), BcdRom(0, \h300) }

\* ------------------------------------------------------------------ actions

Keys == 0..MaxKey

Self ==
    [registers |-> registers, memory |-> memory, display |-> display,
     keyboard |-> keyboard, panicked |-> panicked]

\* The instruction word the next step() executes; -1 when the fetch panics.
CurrentInstruction == IF fetchable(Self) THEN fetch(Self) ELSE -1

IsCall(cur) == cur >= 0 /\ first_nibble(cur) = 2
IsRet(cur) == cur = \h00EE
IsDraw(cur) == cur >= 0 /\ first_nibble(cur) = 13
IsWait(cur) == cur >= 0 /\ first_nibble(cur) = 15 /\ second_byte(cur) = \h0A
IsRandom(cur) == cur >= 0 /\ first_nibble(cur) = 12
IsLoadDelay(cur) == cur >= 0 /\ first_nibble(cur) = 15 /\ second_byte(cur) = \h15
IsLoadSound(cur) == cur >= 0 /\ first_nibble(cur) = 15 /\ second_byte(cur) = \h18

\* wait.begun: the last step() executed an Fx0A instruction and left pc on it.
\* wait.rel:   the first release_key event since then, as << [key, was_down] >>
\*             (was_down: the key was down when it was released), else << >>.
\* wait.early: a release_key event was delivered while pc stood on the Fx0A
\*             instruction, before its first step().
\* wait.late:  a release_key event of another key was delivered after
\*             wait.rel and before the next step().
NoWait == [begun |-> FALSE, rel |-> << >>, early |-> FALSE, late |-> FALSE]

\* snd.n: the value the last Fx18 instruction loaded into the sound timer,
\*        -1 when none was executed yet.
\* snd.k: the step() calls made since that instruction, counted up to n.
\* dly.n, dly.k: the same for the last Fx15 instruction and the delay timer.
NoSound == [n |-> -1, k |-> 0]

\* The state after Interpreter::with_rom(rom).
Boot(rom) ==
    \E s \in {with_rom(rom)} :
        /\ registers = s.registers
        /\ memory = s.memory
        /\ display = s.display
        /\ keyboard = s.keyboard
        /\ panicked = s.panicked
        /\ overflow_checks \in BOOLEAN
        /\ tick = 0
        /\ pre = [registers |-> s.registers, lit |-> s.display, cur |-> -1]
        /\ wait = NoWait
        /\ calls = << >>
        /\ snd = NoSound
        /\ dly = NoSound
        /\ boot = [rom |-> rom, fresh |-> TRUE]

Init == \E rom \in Roms : Boot(rom)

\* The host calls interpreter.step().
Step ==
    /\ ~panicked
    /\ \E v \in (IF IsRandom(CurrentInstruction) THEN 0..255 ELSE {0}) :
      \E cur \in {CurrentInstruction} : \E self \in {Self} :
      \E s \in {step(self, v)} :
           /\ registers' = s.registers
           /\ memory' = s.memory
           /\ display' = s.display
           /\ keyboard' = s.keyboard
           /\ panicked' = s.panicked
           /\ tick' = 1 - tick
           /\ pre' = [registers |-> registers, lit |-> display, cur |-> cur]
           /\ wait' = IF IsWait(cur) /\ ~s.panicked /\ s.registers.pc = registers.pc
                      THEN (IF wait.begun THEN wait ELSE [wait EXCEPT !.begun = TRUE])
                      ELSE NoWait
           /\ calls' = IF IsCall(cur) /\ ~s.panicked
                       THEN Append(calls, [a |-> registers.pc, sp |-> registers.sp])
                       ELSE IF IsRet(cur) /\ ~s.panicked /\ calls # << >>
                       THEN SubSeq(calls, 1, Len(calls) - 1)
                       ELSE calls
           /\ snd' = IF IsLoadSound(cur) /\ ~s.panicked
                     THEN [n |-> registers.vx[second_nibble(cur)], k |-> 0]
                     ELSE IF snd.k < snd.n
                     THEN [snd EXCEPT !.k = snd.k + 1]
                     ELSE snd
           /\ dly' = IF IsLoadDelay(cur) /\ ~s.panicked
                     THEN [n |-> registers.vx[second_nibble(cur)], k |-> 0]
                     ELSE IF dly.k < dly.n
                     THEN [dly EXCEPT !.k = dly.k + 1]
                     ELSE dly
           /\ boot' = [boot EXCEPT !.fresh = FALSE]
    /\ UNCHANGED overflow_checks

\* The host calls interpreter.keyboard_mut().press_key(key).
PressKey(key) ==
    /\ ~panicked
    /\ keyboard' = press_key(keyboard, key)
    /\ boot' = [boot EXCEPT !.fresh = FALSE]
    /\ UNCHANGED << registers, memory, display, panicked, overflow_checks,
                    tick, pre, wait, calls, snd, dly >>

\* The host calls interpreter.keyboard_mut().release_key(key).
ReleaseKey(key) ==
    /\ ~panicked
    /\ keyboard' = release_key(keyboard, key)
    /\ wait' = IF wait.begun /\ wait.rel = << >>
               THEN [wait EXCEPT !.rel = << [key |-> key,
                                             was_down |-> keyboard.pressed_keys[key]] >>]
               ELSE IF wait.begun /\ key # wait.rel[1].key
               THEN [wait EXCEPT !.late = TRUE]
               ELSE IF ~wait.begun /\ IsWait(CurrentInstruction)
               THEN [wait EXCEPT !.early = TRUE]
               ELSE wait
    /\ boot' = [boot EXCEPT !.fresh = FALSE]
    /\ UNCHANGED << registers, memory, display, panicked, overflow_checks,
                    tick, pre, calls, snd, dly >>

Next ==
    \/ Step
    \/ \E key \in Keys : PressKey(key)
    \/ \E key \in Keys : ReleaseKey(key)

Spec == Init /\ [][Next]_vars

\* The host of run_rom, started on the ROM that waits for keys: every pass
\* of its loop calls step(), and a key that is let go reaches release_key
\* through the event queue of that pass.
WaitRoms == { KeyRom }
LiveInit == \E rom \in WaitRoms : Boot(rom)
LiveSpec ==
    /\ LiveInit /\ [][Next]_vars
    /\ WF_vars(Step)
    /\ WF_vars(\E key \in Keys : ReleaseKey(key))

\* The same host, started on the ROMs that exercise the 8xy_ arithmetic.
AluInit == \E rom \in AluRoms : Boot(rom)
AluSpec == AluInit /\ [][Next]_vars

\* The same host, started on ROMs of every size and on the ROMs that
\* exercise loading, memory accesses and the program counter.
MixInit == \E rom \in MixRoms : Boot(rom)
MixSpec == MixInit /\ [][Next]_vars

\* The same host, started on the ROMs that exercise the other instructions.
OpInit == \E rom \in OpRoms : Boot(rom)
OpSpec == OpInit /\ [][Next]_vars

\* ------------------------------------------------------------------ claims

\* A transition is a step() call exactly when tick changes.
StepTaken == tick' # tick

SymDiff(A, B) == (A \ B) \cup (B \ A)

\* C1: a call made with sp inside the stack bound leaves sp one larger and
\* pc = nnn; the return matching a call (the calls and returns in between
\* being balanced) puts sp back to its value before that call and pc to the
\* call's address + 2. The matching call is the newest one not yet returned
\* from (LIFO).
C1_Step ==
    (StepTaken /\ ~panicked') =>
        /\ (IsCall(CurrentInstruction) /\ registers.sp < STACK_SIZE) =>
              /\ registers'.sp = registers.sp + 1
              /\ registers'.pc = bottom_tribble(CurrentInstruction)
        /\ (IsRet(CurrentInstruction) /\ calls # << >>
                /\ calls[Len(calls)].sp < STACK_SIZE) =>
              /\ registers'.sp = calls[Len(calls)].sp
              /\ registers'.pc = calls[Len(calls)].a + 2
C1_CallReturnLifo == [][C1_Step]_vars

\* A return has just executed inside a nested call: one call is still
\* outstanding, and pc is back behind the inner call.
C1_Witness ==
    /\ IsRet(pre.cur) /\ ~panicked
    /\ Len(calls) = 1
    /\ registers.sp = 1
    /\ registers.pc = \h208

\* C2: with fewer than 16 calls outstanding since an empty stack, a call
\* succeeds and its return address is retained.
C2_SixteenNestedCalls ==
    (IsCall(pre.cur) /\ pre.registers.sp < STACK_SIZE
        /\ pre.registers.sp \in {Len(calls), Len(calls) - 1}) =>
        /\ ~panicked
        /\ registers.sp = pre.registers.sp + 1
        /\ \E s \in DOMAIN registers.stack : registers.stack[s] = pre.registers.pc

\* C3: a return executed with an empty call stack is a reported failure
\* that leaves pc and sp as they were.
C3_EmptyReturnRejected ==
    (IsRet(pre.cur) /\ pre.registers.sp = 0) =>
        /\ panicked
        /\ registers.pc = pre.registers.pc
        /\ registers.sp = pre.registers.sp

\* The pixel indices the sprite's set bits address with toroidal wrapping.
WrappedSprite(regs, mem, x, y, n) ==
    { ((regs.vx[y] + r) % DISPLAY_HEIGHT) * DISPLAY_WIDTH
          + ((regs.vx[x] + c) % DISPLAY_WIDTH) :
        <<r, c>> \in { rc \in (0..(n - 1)) \X (0..7) :
            (mem_read(mem, regs.i + rc[1]) \div (2 ^ (7 - rc[2]))) % 2 = 1 } }

\* C4: a draw whose sprite bytes lie inside memory completes, and toggles
\* exactly the pixels ((Vx + c) mod 64, (Vy + r) mod 32) of the set bits.
C4_DrawWraps ==
    (IsDraw(pre.cur) /\ pre.registers.i + fourth_nibble(pre.cur) <= MEMORY_SIZE) =>
        /\ ~panicked
        /\ display = SymDiff(pre.lit,
                WrappedSprite(pre.registers, memory, second_nibble(pre.cur),
                              third_nibble(pre.cur), fourth_nibble(pre.cur)))

\* C5: after a completed draw, VF is 1 if some pixel that was lit before the
\* draw is unlit after it, and 0 otherwise.
C5_CollisionFlag ==
    (IsDraw(pre.cur) /\ ~panicked) =>
        registers.vx[15] = (IF pre.lit \ display # {} THEN 1 ELSE 0)

\* A draw that cleared some pixels and left others lit has set VF from 0 to 1.
C5_Witness ==
    /\ IsDraw(pre.cur) /\ ~panicked
    /\ pre.registers.vx[15] = 0
    /\ registers.vx[15] = 1
    /\ pre.lit \ display # {}
    /\ display # {}

\* C6: the same draw instruction executed twice in succession, with x and y
\* not register F and Vx, Vy, I the same both times, leaves the display as
\* it was before the first draw; if the first draw lit pixels and cleared
\* none, the second sets VF to 1.
C6_Step ==
    LET cur == CurrentInstruction
        x == second_nibble(cur)
        y == third_nibble(cur)
    IN (/\ StepTaken /\ ~panicked'
        /\ IsDraw(cur) /\ pre.cur = cur
        /\ x # 15 /\ y # 15
        /\ pre.registers.vx[x] = registers.vx[x]
        /\ pre.registers.vx[y] = registers.vx[y]
        /\ pre.registers.i = registers.i) =>
           /\ display' = pre.lit
           /\ (pre.lit \subseteq display /\ display # pre.lit) =>
                  registers'.vx[15] = 1
C6_DrawTwiceRestores == [][C6_Step]_vars

\* The second of two equal draws has cleared the display again, with VF = 1.
C6_Witness ==
    /\ IsDraw(pre.cur) /\ ~panicked
    /\ registers.pc = \h20A
    /\ pre.lit # {}
    /\ display = {}
    /\ registers.vx[15] = 1

\* C7: a step of an Fx0A instruction that is waiting, with no release_key
\* event since the wait began, changes neither pc nor a V register; the
\* first step after a release event of key k during the wait stores k in Vx
\* and adds 2 to pc.
C7_Step ==
    LET cur == CurrentInstruction
        x == second_nibble(cur)
    IN (StepTaken /\ ~panicked' /\ IsWait(cur) /\ wait.begun) =>
           /\ wait.rel = << >> =>
                  /\ registers'.pc = registers.pc
                  /\ registers'.vx = registers.vx
           /\ wait.rel # << >> =>
                  /\ registers'.pc = registers.pc + 2
                  /\ registers'.vx = [registers.vx EXCEPT ![x] = wait.rel[1].key]
C7_WaitBlocksUntilRelease == [][C7_Step]_vars

\* The second wait of the loop has stored key 1 in V2 and moved on.
C7_Witness ==
    /\ pre.cur = \hF20A
    /\ registers.pc = pre.registers.pc + 2
    /\ pre.registers.vx[2] = 0
    /\ registers.vx[2] = 1

\* C8: the latch is a three-state machine. A poll (a step of Fx0A) in None
\* goes to Waiting and reports no key; a poll in Waiting stays there and
\* reports no key; release_key(k) in Waiting goes to Pressed(k); a poll in
\* Pressed(k) reports k (Vx = k, pc + 2) and goes back to None.
C8_Step ==
    LET cur == CurrentInstruction
        x == second_nibble(cur)
        ws == keyboard.waiting_state
        poll == StepTaken /\ ~panicked' /\ IsWait(cur)
        no_key == /\ registers'.pc = registers.pc
                  /\ registers'.vx = registers.vx
    IN /\ (poll /\ ws = WaitingNone) =>
              (keyboard'.waiting_state = WaitingWaiting /\ no_key)
       /\ (poll /\ ws = WaitingWaiting) =>
              (keyboard'.waiting_state = WaitingWaiting /\ no_key)
       /\ (poll /\ ws.tag = "Pressed") =>
              /\ keyboard'.waiting_state = WaitingNone
              /\ registers'.vx[x] = ws.key
              /\ registers'.pc = registers.pc + 2
       /\ \A k \in Keys :
              (ReleaseKey(k) /\ ws = WaitingWaiting) =>
                  keyboard'.waiting_state = WaitingPressed(k)
       /\ keyboard'.waiting_state.tag \in {"None", "Waiting", "Pressed"}
C8_LatchMachine == [][C8_Step]_vars

\* The latch has been resolved with key 1 by a release during a wait.
C8_Witness ==
    /\ keyboard.waiting_state = WaitingPressed(1)
    /\ wait.begun
    /\ IsWait(CurrentInstruction)

\* C9 as claimed: a press never resolves the wait, and a wait is completed
\* only by the release of a key that was down when it was released.
C9_OriginalStep ==
    /\ \A k \in Keys : PressKey(k) => keyboard'.waiting_state = keyboard.waiting_state
    /\ (StepTaken /\ ~panicked' /\ IsWait(CurrentInstruction)
            /\ registers'.pc = registers.pc + 2) =>
           (wait.rel # << >> /\ wait.rel[1].was_down)
C9_OnlyPressThenRelease == [][C9_OriginalStep]_vars

\* C9 as amended: a press never changes the latch; a wait is completed only
\* after a release_key event delivered during the wait, with that key, and
\* the first such event completes it whether or not the key was down.
C9_AmendedStep ==
    LET cur == CurrentInstruction
        x == second_nibble(cur)
        waitStep == StepTaken /\ ~panicked' /\ IsWait(cur)
    IN /\ \A k \in Keys : PressKey(k) => keyboard'.waiting_state = keyboard.waiting_state
       /\ (waitStep /\ registers'.pc # registers.pc) =>
              /\ wait.rel # << >>
              /\ registers'.vx[x] = wait.rel[1].key
       /\ (waitStep /\ wait.rel # << >>) =>
              registers'.pc = registers.pc + 2
C9_ReleaseCompletesWait == [][C9_AmendedStep]_vars

\* A wait has been resolved by the release of a key that was not down.
C9_Witness ==
    /\ keyboard.waiting_state.tag = "Pressed"
    /\ wait.rel # << >>
    /\ ~wait.rel[1].was_down
    /\ keyboard.waiting_state.key = wait.rel[1].key

\* C10: the first step of an Fx0A instruction (the step before it did not
\* leave pc waiting on it) changes neither pc nor a V register, whatever
\* key events came before it.
C10_Step ==
    (StepTaken /\ ~panicked' /\ IsWait(CurrentInstruction) /\ ~wait.begun) =>
        /\ registers'.pc = registers.pc
        /\ registers'.vx = registers.vx
        /\ wait'.begun
C10_EarlyEventsIgnored == [][C10_Step]_vars

\* An Fx0A instruction has made its first step after a release event was
\* delivered, and is waiting.
C10_Witness ==
    /\ IsWait(pre.cur)
    /\ wait.begun /\ wait.early
    /\ wait.rel = << >>
    /\ registers.pc = pre.registers.pc
    /\ keyboard.waiting_state = WaitingWaiting

\* ------------------------------------------------- claims on the arithmetic

IsAlu(cur, op) == cur >= 0 /\ first_nibble(cur) = 8 /\ fourth_nibble(cur) = op

\* The flag of the operation 8xy<op> on the operands a = Vx, b = Vy: the
\* carry of the sum, "no borrow" of the two subtractions, the bit shifted out.
AluFlag(op, a, b) ==
    CASE op = 4 -> IF a + b > 255 THEN 1 ELSE 0
      [] op = 5 -> IF a > b THEN 1 ELSE 0
      [] op = 7 -> IF b > a THEN 1 ELSE 0
      [] op = 6 -> a % 2
      [] op = 14 -> a \div 128

\* C11: a step of 8xy4 with x # F leaves Vx = (Vx + Vy) mod 256 and VF = 1 if
\* the sum of the two operands before the step exceeds 255, else VF = 0.
C11_Step ==
    LET cur == CurrentInstruction
        x == second_nibble(cur)
        y == third_nibble(cur)
    IN (StepTaken /\ ~panicked' /\ IsAlu(cur, 4) /\ x # 15) =>
           /\ registers'.vx[x] = (registers.vx[x] + registers.vx[y]) % 256
           /\ registers'.vx[15] = (IF registers.vx[x] + registers.vx[y] > 255
                                   THEN 1 ELSE 0)

C11_AddWithCarry == [][C11_Step]_vars

\* 0xFA + 0x13 has been added: the result is 0x0D and the carry is set.
C11_Witness ==
    /\ ~panicked
    /\ pre.cur = \h8124
    /\ pre.registers.vx[1] = \hFA /\ pre.registers.vx[2] = \h13
    /\ registers.vx[1] = \h0D /\ registers.vx[15] = 1

\* C12: with x # F, a step of 8xy5 leaves Vx = (Vx - Vy) mod 256 and VF = 1
\* iff Vx > Vy before the step; a step of 8xy7 leaves Vx = (Vy - Vx) mod 256
\* and VF = 1 iff Vy > Vx before the step; equal operands give VF = 0.
C12_Step ==
    LET cur == CurrentInstruction
        x == second_nibble(cur)
        y == third_nibble(cur)
        a == registers.vx[x]
        b == registers.vx[y]
    IN /\ (StepTaken /\ ~panicked' /\ IsAlu(cur, 5) /\ x # 15) =>
              /\ registers'.vx[x] = (a - b) % 256
              /\ (registers'.vx[15] = 1) <=> (a > b)
              /\ (registers'.vx[15] = 0) <=> ~(a > b)
              /\ (a = b) => registers'.vx[15] = 0
       /\ (StepTaken /\ ~panicked' /\ IsAlu(cur, 7) /\ x # 15) =>
              /\ registers'.vx[x] = (b - a) % 256
              /\ (registers'.vx[15] = 1) <=> (b > a)
              /\ (registers'.vx[15] = 0) <=> ~(b > a)
              /\ (a = b) => registers'.vx[15] = 0

C12_SubtractNoBorrow == [][C12_Step]_vars

\* 0x13 - 0x13 has been computed by 8xy5: the result and the flag are 0.
C12_Witness ==
    /\ ~panicked
    /\ pre.cur = \h8125
    /\ pre.registers.vx[1] = \h13 /\ pre.registers.vx[2] = \h13
    /\ registers.vx[1] = 0 /\ registers.vx[15] = 0

\* C13: with x # F, a step of 8xy6 leaves Vx = floor(Vx / 2) and VF = the
\* lowest bit Vx had; a step of 8xyE leaves Vx = (2 * Vx) mod 256 and VF =
\* the highest bit Vx had. Vy does not enter the result and, when it is
\* another register than Vx and VF, keeps its value.
C13_Step ==
    LET cur == CurrentInstruction
        x == second_nibble(cur)
        y == third_nibble(cur)
        a == registers.vx[x]
    IN /\ (StepTaken /\ ~panicked' /\ IsAlu(cur, 6) /\ x # 15) =>
              /\ registers'.vx[x] = a \div 2
              /\ registers'.vx[15] = a % 2
              /\ (y # x /\ y # 15) => registers'.vx[y] = registers.vx[y]
       /\ (StepTaken /\ ~panicked' /\ IsAlu(cur, 14) /\ x # 15) =>
              /\ registers'.vx[x] = (2 * a) % 256
              /\ registers'.vx[15] = a \div 128
              /\ (y # x /\ y # 15) => registers'.vx[y] = registers.vx[y]

C13_ShiftVx == [][C13_Step]_vars

\* 0x81 has been shifted right with Vy = 0x13: Vx = 0x40, VF = 1, Vy as before.
C13_Witness ==
    /\ ~panicked
    /\ pre.cur = \h8126
    /\ pre.registers.vx[1] = \h81 /\ pre.registers.vx[2] = \h13
    /\ registers.vx[1] = \h40 /\ registers.vx[15] = 1 /\ registers.vx[2] = \h13

\* C14: after a step of 8xy4, 8xy5, 8xy6, 8xy7 or 8xyE, VF is 0 or 1; when
\* x = F, VF holds the flag computed from the operands before the step (VF
\* itself as the first operand) and the arithmetic result is not kept.
C14_Step ==
    LET cur == CurrentInstruction
        x == second_nibble(cur)
        y == third_nibble(cur)
        op == fourth_nibble(cur)
    IN (StepTaken /\ ~panicked' /\ \E o \in {4, 5, 6, 7, 14} : IsAlu(cur, o)) =>
           /\ registers'.vx[15] \in {0, 1}
           /\ (x = 15) => registers'.vx[15] = AluFlag(op, registers.vx[15], registers.vx[y])

C14_FlagWins == [][C14_Step]_vars

\* 8F24 has added VF = 0xF0 and V2 = 0x13: the sum 0x03 is dropped, VF = 1.
C14_Witness ==
    /\ ~panicked
    /\ pre.cur = \h8F24
    /\ pre.registers.vx[15] = \hF0 /\ pre.registers.vx[2] = \h13
    /\ registers.vx[15] = 1

\* ------------------------------------------ claims on the other instructions

IsBcd(cur) == cur >= 0 /\ first_nibble(cur) = 15 /\ second_byte(cur) = \h33
IsFont(cur) == cur >= 0 /\ first_nibble(cur) = 15 /\ second_byte(cur) = \h29
IsJump(cur) == cur >= 0 /\ first_nibble(cur) = 1

\* C15: a step of Fx33 that completes leaves floor(Vx / 100), floor(Vx / 10)
\* mod 10 and Vx mod 10 at memory[I], memory[I + 1], memory[I + 2]: each of
\* the three bytes is a digit 0..9 and they spell Vx in decimal; I and the
\* V registers keep their values.
C15_Step ==
    LET cur == CurrentInstruction
        v == registers.vx[second_nibble(cur)]
        i == registers.i
        h == mem_read(memory', i)
        t == mem_read(memory', i + 1)
        o == mem_read(memory', i + 2)
    IN (StepTaken /\ ~panicked' /\ IsBcd(cur)) =>
           /\ h = v \div 100 /\ t = (v \div 10) % 10 /\ o = v % 10
           /\ {h, t, o} \subseteq 0..9
           /\ 100 * h + 10 * t + o = v
           /\ registers'.i = registers.i
           /\ registers'.vx = registers.vx

C15_BcdDigits == [][C15_Step]_vars

\* 223 has been stored as 2, 2, 3 at 0x300.
C15_Witness ==
    /\ ~panicked
    /\ pre.cur = \hF533 /\ pre.registers.vx[5] = 223 /\ pre.registers.i = \h300
    /\ mem_read(memory, \h300) = 2
    /\ mem_read(memory, \h301) = 2
    /\ mem_read(memory, \h302) = 3

\* C16: after a step of Fx29, I = 5 * Vx, for every register index x and
\* every value 0..15 of Vx.
C16_Step ==
    LET cur == CurrentInstruction
        v == registers.vx[second_nibble(cur)]
    IN (StepTaken /\ IsFont(cur) /\ v \in 0..15) => registers'.i = 5 * v

C16_GlyphAddress == [][C16_Step]_vars

\* C17: a step of 1nnn leaves pc = nnn, nothing added, and changes no V
\* register, nor I, sp, a stack slot, a memory byte or a pixel.
C17_Step ==
    LET cur == CurrentInstruction IN
    (StepTaken /\ IsJump(cur)) =>
        /\ ~panicked'
        /\ registers'.pc = bottom_tribble(cur)
        /\ registers'.vx = registers.vx
        /\ registers'.i = registers.i
        /\ registers'.sp = registers.sp
        /\ registers'.stack = registers.stack
        /\ memory' = memory
        /\ display' = display

C17_JumpExact == [][C17_Step]_vars

\* 1789 has been executed inside a subroutine with pixels lit: pc = 0x789.
C17_Witness ==
    /\ ~panicked
    /\ pre.cur = \h1789 /\ pre.registers.pc = \h20A
    /\ registers.pc = \h789
    /\ registers.sp = 1 /\ display # {}

\* The condition of a skip instruction, from the state before the step: key
\* Vx is pressed when it is one of the keys held down.
SkipCondition(cur) ==
    LET a == first_nibble(cur)
        vx == registers.vx[second_nibble(cur)]
        vy == registers.vx[third_nibble(cur)]
        kk == second_byte(cur)
        down == { k \in DOMAIN keyboard.pressed_keys : keyboard.pressed_keys[k] }
    IN CASE a = 3 -> vx = kk
         [] a = 4 -> vx # kk
         [] a = 5 -> vx = vy
         [] a = 9 -> vx # vy
         [] a = 14 /\ kk = \h9E -> vx \in down
         [] a = 14 /\ kk = \hA1 -> vx \notin down

IsSkip(cur) ==
    /\ cur >= 0
    /\ \/ first_nibble(cur) \in {3, 4}
       \/ first_nibble(cur) \in {5, 9} /\ fourth_nibble(cur) = 0
       \/ first_nibble(cur) = 14 /\ second_byte(cur) \in {\h9E, \hA1}

\* C18: a step of 3xkk, 4xkk, 5xy0, 9xy0, Ex9E or ExA1 adds 4 to pc when the
\* instruction's condition holds and 2 when it does not, and changes no V
\* register, nor I, sp, a stack slot, a memory byte, a pixel or the keyboard.
C18_Step ==
    LET cur == CurrentInstruction IN
    (StepTaken /\ IsSkip(cur)) =>
        /\ ~panicked'
        /\ registers'.pc = registers.pc + (IF SkipCondition(cur) THEN 4 ELSE 2)
        /\ registers'.vx = registers.vx
        /\ registers'.i = registers.i
        /\ registers'.sp = registers.sp
        /\ registers'.stack = registers.stack
        /\ memory' = memory
        /\ display' = display
        /\ keyboard' = keyboard

C18_SkipByCondition == [][C18_Step]_vars

\* The timer after one step() call that does not load it.
Lowered(t) == IF t = 0 THEN 0 ELSE t - 1

\* C19: every step() call, whatever it executes and however it ends, lowers
\* each timer by 1, a timer at 0 staying 0, unless the instruction is the
\* load of that timer (Fx15 for delay, Fx18 for sound), which leaves Vx in
\* it; no other transition changes a timer, so a timer rises only by a load.
C19_Step ==
    LET cur == CurrentInstruction
        v == registers.vx[second_nibble(cur)]
    IN /\ StepTaken =>
              /\ registers'.delay = (IF IsLoadDelay(cur) THEN v ELSE Lowered(registers.delay))
              /\ registers'.sound = (IF IsLoadSound(cur) THEN v ELSE Lowered(registers.sound))
       /\ ~StepTaken =>
              /\ registers'.delay = registers.delay
              /\ registers'.sound = registers.sound
       /\ registers'.delay > registers.delay => StepTaken /\ IsLoadDelay(cur)
       /\ registers'.sound > registers.sound => StepTaken /\ IsLoadSound(cur)

C19_TimersCountDown == [][C19_Step]_vars

\* A step of a waiting Fx0A instruction has lowered the sound timer from 3
\* to 2 and left the delay timer at 0.
C19_Witness ==
    /\ ~panicked
    /\ pre.cur = \hF20A /\ wait.begun /\ registers.pc = pre.registers.pc
    /\ pre.registers.sound = 3 /\ registers.sound = 2
    /\ pre.registers.delay = 0 /\ registers.delay = 0

\* C20: once Fx18 has loaded n into the sound timer, and until the next
\* Fx18, sound_timer_active() is true exactly while fewer than n further
\* step() calls have been made: true right after the load iff n > 0, false
\* from the n-th further step on.
C20_SoundActive ==
    snd.n >= 0 => (sound_timer_active(Self) <=> snd.k < snd.n)

\* 4 was loaded and 4 further steps were made: the sound is off.
C20_Witness ==
    /\ ~panicked
    /\ snd.n = 4 /\ snd.k = 4
    /\ ~sound_timer_active(Self)

\* ------------------------------------- claims on loading and on memory

\* C21: right after with_rom(rom) with Len(rom) <= 3584, memory holds the
\* font table at 0..79, the ROM from 0x200 on and 0 everywhere else; pc =
\* 0x200, sp = 0, V0..VF, I and both timers are 0, no pixel is lit and no
\* key is pressed.
C21_FreshEngine ==
    (boot.fresh /\ Len(boot.rom) <= 3584) =>
        /\ ~panicked
        /\ \A a \in 0..(MEMORY_SIZE - 1) :
               mem_read(memory, a) =
                   IF a < 80 THEN FONT_DATA[a + 1]
                   ELSE IF a >= \h200 /\ a < \h200 + Len(boot.rom)
                   THEN boot.rom[a - \h200 + 1]
                   ELSE 0
        /\ registers.pc = \h200
        /\ registers.sp = 0
        /\ \A r \in 0..15 : registers.vx[r] = 0
        /\ registers.i = 0
        /\ registers.delay = 0 /\ registers.sound = 0
        /\ \A x \in 0..(DISPLAY_WIDTH - 1), y \in 0..(DISPLAY_HEIGHT - 1) :
               ~pixel(display, x, y)
        /\ \A k \in 0..15 : ~is_pressed(keyboard, k)

\* An engine fresh from a ROM of exactly 3584 bytes: its last byte is the
\* last byte of memory.
C21_Witness ==
    /\ boot.fresh /\ ~panicked
    /\ Len(boot.rom) = 3584
    /\ mem_read(memory, 4095) = \hAB
    /\ mem_read(memory, \h200) = \h12
    /\ registers.pc = \h200

\* C22: with_rom(rom) with Len(rom) > 3584 fails: the call does not return
\* an engine (no host call is ever made on one) and no byte of the ROM,
\* truncated or not, is in memory.
C22_OversizedRomRejected ==
    (Len(boot.rom) > 3584) =>
        /\ panicked
        /\ boot.fresh
        /\ \A a \in \h200..(MEMORY_SIZE - 1) : mem_read(memory, a) = 0

\* with_rom has failed on a ROM of 3585 bytes.
C22_Witness ==
    /\ Len(boot.rom) = 3585
    /\ panicked
    /\ mem_read(memory, \h200) = 0

IsUnknown(cur) == cur >= 0 /\ ~Decodes(cur)

\* C23 as stated: a step that fetches a word no opcode pattern matches
\* leaves pc, the V registers, I, the stack, memory, the display and the
\* keyboard unchanged.
C23_OriginalStep ==
    LET cur == CurrentInstruction IN
    (StepTaken /\ IsUnknown(cur)) =>
        /\ registers'.pc = registers.pc
        /\ registers'.vx = registers.vx
        /\ registers'.i = registers.i
        /\ registers'.sp = registers.sp
        /\ registers'.stack = registers.stack
        /\ memory' = memory
        /\ display' = display
        /\ keyboard' = keyboard

C23_UnknownLeavesState == [][C23_OriginalStep]_vars

\* C23, amended: a step that fetches a word no opcode pattern matches
\* returns normally with pc advanced by 2, and leaves the V registers, I,
\* sp, the stack, memory, the display and the keyboard unchanged.
C23_AmendedStep ==
    LET cur == CurrentInstruction IN
    (StepTaken /\ IsUnknown(cur)) =>
        /\ ~panicked'
        /\ registers'.pc = registers.pc + 2
        /\ registers'.vx = registers.vx
        /\ registers'.i = registers.i
        /\ registers'.sp = registers.sp
        /\ registers'.stack = registers.stack
        /\ memory' = memory
        /\ display' = display
        /\ keyboard' = keyboard

C23_UnknownSkipped == [][C23_AmendedStep]_vars

\* The word 8018 at 0x206 has been stepped over, registers and pixels set.
C23_Witness ==
    /\ ~panicked
    /\ pre.cur = \h8018 /\ pre.registers.pc = \h206
    /\ registers.pc = \h208
    /\ registers.vx[0] = 3 /\ registers.i = 5
    /\ display # {}

\* C24: after a step of 00E0 every pixel (x, y), x in 0..63, y in 0..31, is
\* unlit, whatever was lit before; a blank display stays as it is; pc has
\* advanced by 2 and the V registers, I, sp and the stack are unchanged.
C24_Step ==
    (StepTaken /\ CurrentInstruction = \h00E0) =>
        /\ ~panicked'
        /\ \A x \in 0..(DISPLAY_WIDTH - 1), y \in 0..(DISPLAY_HEIGHT - 1) :
               ~pixel(display', x, y)
        /\ (display = display_new) => display' = display
        /\ registers'.pc = registers.pc + 2
        /\ registers'.vx = registers.vx
        /\ registers'.i = registers.i
        /\ registers'.sp = registers.sp
        /\ registers'.stack = registers.stack

C24_ClearBlanks == [][C24_Step]_vars

\* 00E0 has cleared a display that had pixels lit.
C24_Witness ==
    /\ ~panicked
    /\ pre.cur = \h00E0 /\ pre.lit # {}
    /\ display = {}
    /\ registers.pc = pre.registers.pc + 2
    /\ registers.vx[0] = 3 /\ registers.i = 5

\* C25 as stated: a return that executes with a call outstanding leaves pc
\* equal to the address the call stored in the popped slot, nothing added.
C25_OriginalStep ==
    (StepTaken /\ ~panicked' /\ IsRet(CurrentInstruction) /\ calls # << >>
        /\ registers.sp \in 1..(STACK_SIZE - 1)) =>
            registers'.pc = registers.stack[registers.sp]

C25_ReturnExempt == [][C25_OriginalStep]_vars

\* C25, amended: the slot a return pops holds the address of the matching
\* call instruction (pc when the call executed), and the return leaves pc at
\* that address plus 2: 00EE takes the default advance like any other
\* instruction.
C25_AmendedStep ==
    (StepTaken /\ ~panicked' /\ IsRet(CurrentInstruction) /\ calls # << >>
        /\ registers.sp \in 1..(STACK_SIZE - 1)) =>
            /\ registers.stack[registers.sp] = calls[Len(calls)].a
            /\ registers'.pc = registers.stack[registers.sp] + 2

C25_ReturnAdvances == [][C25_AmendedStep]_vars

\* The inner of two nested calls has returned: pc is 2 past the address in
\* the slot it popped.
C25_Witness ==
    /\ ~panicked
    /\ IsRet(pre.cur) /\ pre.registers.sp = 2
    /\ registers.sp = 1
    /\ registers.pc = pre.registers.stack[2] + 2
    /\ pre.registers.stack[2] >= \h200

\* The instructions C26 lists as advancing pc by 2, the keypress wait apart.
IsPlain(cur) ==
    /\ cur >= 0
    /\ \/ cur = \h00E0
       \/ first_nibble(cur) \in {6, 7, 10, 12, 13}
       \/ first_nibble(cur) = 8 /\ fourth_nibble(cur) \in {0, 1, 2, 3, 4, 5, 6, 7, 14}
       \/ first_nibble(cur) = 15
             /\ second_byte(cur) \in {\h07, \h15, \h18, \h1E, \h29, \h33, \h55, \h65}

\* The addresses the instruction reads or writes lie inside memory.
AddressesInside(cur) ==
    LET x == second_nibble(cur)
        kk == second_byte(cur)
    IN /\ (first_nibble(cur) = 13) => registers.i + fourth_nibble(cur) <= MEMORY_SIZE
       /\ (first_nibble(cur) = 15 /\ kk = \h33) => registers.i + 2 < MEMORY_SIZE
       /\ (first_nibble(cur) = 15 /\ kk \in {\h55, \h65}) => registers.i + x < MEMORY_SIZE

\* The steps C26 allows to move pc by another amount than 2: the jumps (the
\* 0x0 | 0x1 arm), call, return, jump-relative, a skip whose condition
\* holds, a keypress wait that is not resolved.
MayMovePc(cur) ==
    /\ cur >= 0
    /\ \/ first_nibble(cur) \in {0, 1, 2, 11}
       \/ IsSkip(cur) /\ SkipCondition(cur)
       \/ IsWait(cur) /\ keyboard.waiting_state \in {WaitingNone, WaitingWaiting}

\* C26: a step of one of the listed instructions whose addresses lie inside
\* memory, or of an Fx0A whose key has been latched, adds exactly 2 to pc;
\* a completed step that moves pc by another amount is a jump, a call, a
\* return, a jump-relative, a skip whose condition holds or an unresolved
\* Fx0A.
C26_Step ==
    LET cur == CurrentInstruction IN
    /\ (StepTaken /\ IsPlain(cur) /\ AddressesInside(cur)) =>
           registers'.pc = registers.pc + 2
    /\ (StepTaken /\ IsWait(cur) /\ ~MayMovePc(cur)) =>
           registers'.pc = registers.pc + 2
    /\ (StepTaken /\ ~panicked' /\ registers'.pc # registers.pc + 2) =>
           MayMovePc(cur)

C26_PcAdvance == [][C26_Step]_vars

IsStore(cur) == cur >= 0 /\ first_nibble(cur) = 15 /\ second_byte(cur) = \h55
IsLoad(cur) == cur >= 0 /\ first_nibble(cur) = 15 /\ second_byte(cur) = \h65
IsAddI(cur) == cur >= 0 /\ first_nibble(cur) = 15 /\ second_byte(cur) = \h1E

\* The step reads or writes an address outside memory: the fetch at pc >
\* 4094, Fx33 with I > 4093, Fx55 / Fx65 with I + x > 4095, Dxyn with a
\* sprite row at I + r > 4095.
OutsideMemory(cur) ==
    \/ cur = -1
    \/ IsBcd(cur) /\ registers.i > 4093
    \/ (IsStore(cur) \/ IsLoad(cur)) /\ registers.i + second_nibble(cur) > 4095
    \/ IsDraw(cur) /\ \E r \in 0..(fourth_nibble(cur) - 1) : registers.i + r > 4095

\* C27: a step whose effective address falls outside memory fails, and has
\* modified no memory byte, no V register and no pixel.
C27_Step ==
    (StepTaken /\ OutsideMemory(CurrentInstruction)) =>
        /\ panicked'
        /\ memory' = memory
        /\ registers'.vx = registers.vx
        /\ display' = display

C27_CleanAbort == [][C27_Step]_vars

\* C28: a step of Fx55 with I + x inside memory leaves V0..Vx at
\* memory[I..I+x] and every other byte, the V registers and I as they were;
\* a step of Fx65 with I + x inside memory leaves memory[I..I+x] in V0..Vx
\* and the registers above x, memory and I as they were; x is any of 0..15.
C28_Step ==
    LET cur == CurrentInstruction
        x == second_nibble(cur)
        i == registers.i
    IN /\ (StepTaken /\ IsStore(cur) /\ i + x < MEMORY_SIZE) =>
              /\ ~panicked'
              /\ \A k \in 0..x : mem_read(memory', i + k) = registers.vx[k]
              /\ \A a \in (0..(MEMORY_SIZE - 1)) \ (i..(i + x)) :
                     mem_read(memory', a) = mem_read(memory, a)
              /\ registers'.i = i
              /\ registers'.vx = registers.vx
       /\ (StepTaken /\ IsLoad(cur) /\ i + x < MEMORY_SIZE) =>
              /\ ~panicked'
              /\ \A k \in 0..x : registers'.vx[k] = mem_read(memory, i + k)
              /\ \A r \in (x + 1)..15 : registers'.vx[r] = registers.vx[r]
              /\ registers'.i = i
              /\ memory' = memory

C28_BlockCopy == [][C28_Step]_vars

\* F355 has stored V0..V3 at 0x300..0x303 and nothing at 0x304.
C28_Witness ==
    /\ ~panicked
    /\ pre.cur = \hF355 /\ registers.i = \h300
    /\ mem_read(memory, \h300) = \h11
    /\ mem_read(memory, \h303) = \h44
    /\ mem_read(memory, \h304) = 0
    /\ registers.vx[4] = \h55

\* C29: whenever a memory byte changes, the transition is a step of Fx33 or
\* of Fx55; every other step and every key event leaves memory as it was.
C29_Step ==
    (memory' # memory) =>
        /\ StepTaken
        /\ IsBcd(CurrentInstruction) \/ IsStore(CurrentInstruction)

C29_OnlyStoresWrite == [][C29_Step]_vars

\* After a store to 0x300.., FF65 has loaded sixteen registers from the
\* font table: the stored bytes and the font are still in memory.
C29_Witness ==
    /\ ~panicked
    /\ pre.cur = \hFF65
    /\ mem_read(memory, \h300) = \h11
    /\ mem_read(memory, \h30F) = \h10
    /\ \A a \in 0..79 : mem_read(memory, a) = FONT_DATA[a + 1]
    /\ registers.vx[0] = FONT_DATA[4]

\* C30: a step of Fx1E leaves I = (I + Vx) mod 65536 and every V register,
\* VF included, as it was.
C30_Step ==
    LET cur == CurrentInstruction IN
    (StepTaken /\ IsAddI(cur)) =>
        /\ ~panicked'
        /\ registers'.i = (registers.i + registers.vx[second_nibble(cur)]) % 65536
        /\ registers'.vx = registers.vx

C30_AddToIndex == [][C30_Step]_vars

\* 0xFFFA + 0xFA has wrapped to 0x00F4, with VF still 0xFA.
C30_Witness ==
    /\ ~panicked
    /\ pre.cur = \hFF1E
    /\ pre.registers.i = \hFFFA /\ pre.registers.vx[15] = \hFA
    /\ registers.i = \h00F4 /\ registers.vx[15] = \hFA

\* ------------------------------------ claims on the keypress wait, again

\* C31: whenever the latch is Waiting or Pressed, pc stands on an Fx0A
\* instruction; so a step() that executes any other instruction finds the
\* latch at None.
C31_LatchOnlyAtWait ==
    keyboard.waiting_state # WaitingNone => IsWait(CurrentInstruction)

\* The second wait of the loop is resolved with key 1 and not yet polled.
C31_Witness ==
    /\ ~panicked
    /\ keyboard.waiting_state = WaitingPressed(1)
    /\ CurrentInstruction = \hF20A
    /\ registers.vx[1] = 0

\* The addresses that hold an Fx0A instruction in one of the ROMs.
WaitAddresses ==
    { p \in START_ROM..(START_ROM + 31) :
        \E rom \in WaitRoms :
            LET i == p - START_ROM + 1 IN
            /\ i + 1 <= Len(rom)
            /\ IsWait(rom[i] * 256 + rom[i + 1]) }

\* The wait at address p has been resolved: the last step() executed the
\* Fx0A instruction there, left a key code in Vx and moved pc past it.
Resolved(p) ==
    /\ IsWait(pre.cur)
    /\ pre.registers.pc = p
    /\ registers.pc = p + 2
    /\ registers.vx[second_nibble(pre.cur)] \in Keys
    /\ keyboard.waiting_state = WaitingNone

\* While the latch is Waiting, a transition that is not a release_key event
\* leaves pc on the instruction and the latch Waiting.
C32_Step ==
    (keyboard.waiting_state = WaitingWaiting
         /\ ~(\E k \in Keys : ReleaseKey(k))) =>
        /\ registers'.pc = registers.pc
        /\ registers'.vx = registers.vx
        /\ keyboard'.waiting_state = WaitingWaiting

\* C32: when the host keeps calling step() and release events are
\* delivered, an engine waiting on the Fx0A instruction at p eventually
\* moves pc to p + 2 with a released key in Vx; as long as no release event
\* arrives, pc stays at p.
C32_WaitResolves ==
    /\ \A p \in WaitAddresses :
           (keyboard.waiting_state = WaitingWaiting /\ registers.pc = p)
               ~> Resolved(p)
    /\ [](keyboard.waiting_state = WaitingWaiting => registers.pc \in WaitAddresses)
    /\ [][C32_Step]_vars

\* The first wait of the loop, at 0x200, has stored key 1 in V1.
C32_Witness ==
    /\ ~panicked
    /\ Resolved(START_ROM)
    /\ pre.cur = \hF10A
    /\ pre.registers.vx[1] = 0
    /\ registers.vx[1] = 1

\* C33: while the latch is Pressed(k), press_key and release_key of any key
\* leave it Pressed(k); the poll that resolves a wait stores in Vx the key
\* of the first release_key event delivered since the wait began; and
\* release_key with the latch at None leaves it at None.
C33_Step ==
    LET cur == CurrentInstruction
        x == second_nibble(cur)
        ws == keyboard.waiting_state
    IN /\ \A j \in Keys :
              ((PressKey(j) \/ ReleaseKey(j)) /\ ws.tag = "Pressed") =>
                  keyboard'.waiting_state = ws
       /\ (StepTaken /\ ~panicked' /\ IsWait(cur) /\ ws.tag = "Pressed") =>
              /\ wait.rel # << >>
              /\ ws.key = wait.rel[1].key
              /\ registers'.vx[x] = wait.rel[1].key
       /\ \A j \in Keys :
              (ReleaseKey(j) /\ ws = WaitingNone) =>
                  keyboard'.waiting_state = WaitingNone
C33_FirstReleaseWins == [][C33_Step]_vars

\* Key 0 was released first and is latched; key 1 was released after it.
C33_Witness ==
    /\ ~panicked
    /\ keyboard.waiting_state = WaitingPressed(0)
    /\ wait.rel # << >> /\ wait.rel[1].key = 0
    /\ wait.late

\* ------------------------------------------- claims on 0nnn and on Fx07

\* The words 0nnn other than 00E0 and 00EE.
IsSys(cur) ==
    cur >= 0 /\ first_nibble(cur) = 0 /\ cur # \h00E0 /\ cur # \h00EE

\* C34: a step of a word 0nnn other than 00E0 and 00EE completes, leaves
\* pc at nnn (2 is not added) and changes no V register, I, the stack,
\* memory or the display; so the word 0000 of zero-filled memory leaves pc
\* at 0.
C34_Step ==
    LET cur == CurrentInstruction IN
    (StepTaken /\ IsSys(cur)) =>
        /\ ~panicked'
        /\ registers'.pc = cur % 4096
        /\ registers'.vx = registers.vx
        /\ registers'.i = registers.i
        /\ registers'.sp = registers.sp
        /\ registers'.stack = registers.stack
        /\ memory' = memory
        /\ display' = display
        /\ keyboard' = keyboard
C34_SysIsJump == [][C34_Step]_vars

\* 0789 has moved pc to 0x789, inside a subroutine with pixels lit; the
\* zero-filled memory there holds the word 0000, which has moved pc to 0.
C34_Witness ==
    /\ ~panicked
    /\ boot.rom = SysRom(\h789)
    /\ pre.cur = 0 /\ pre.registers.pc = \h789
    /\ registers.pc = 0
    /\ registers.sp = 1 /\ display # {}

IsReadDelay(cur) == cur >= 0 /\ first_nibble(cur) = 15 /\ second_byte(cur) = \h07

\* The largest of a and b.
Max(a, b) == IF a >= b THEN a ELSE b

\* C35: Fx07 leaves in Vx the delay timer as lowered by that same step();
\* executed as the k-th step() after the Fx15 that loaded n (k = 1 is the
\* very next step), with no Fx15 in between, it leaves max(n - k, 0).
C35_Step ==
    LET cur == CurrentInstruction
        x == second_nibble(cur)
    IN (StepTaken /\ IsReadDelay(cur)) =>
           /\ ~panicked'
           /\ registers'.vx[x] = Lowered(registers.delay)
           /\ registers'.vx[x] = registers'.delay
           /\ dly.n >= 0 => registers'.vx[x] = Max(dly.n - (dly.k + 1), 0)
C35_DelayReadback == [][C35_Step]_vars

\* 5 was loaded; F107 in the next step has read 4 and F207 after it 3.
C35_Witness ==
    /\ ~panicked
    /\ pre.cur = \hF207
    /\ dly.n = 5 /\ dly.k = 2
    /\ registers.vx[1] = 4 /\ registers.vx[2] = 3
====
